---- MODULE Spec2Model ----
(***************************************************************************)
(* AcceleRender: the swap chain manager (SwapChain::create, cleanup,       *)
(* recreate), its selection policies (chooseSwapExtent,                    *)
(* chooseSwapSurfaceFormat, chooseSwapPresentMode, the image count) and    *)
(* the GPU backend as far as the manager drives it.                        *)
(*                                                                         *)
(* The manager is driven by one thread.  pc is that thread's position      *)
(* inside the operation in progress; every source statement that calls     *)
(* the backend is one step, so that the order of the calls can be          *)
(* observed.  While an operation runs no other operation can start.        *)
(***************************************************************************)
EXTENDS Integers, Sequences, FiniteSets, TLC

(***************************************************************************)
(* Bounds of the model.                                                    *)
(***************************************************************************)
\* swap chains the backend creates in one run (handles 1..MaxChains)
MaxChains == 3
\* largest minImageCount / maxImageCount a surface reports
MaxImageCount == 4
\* images a chain may hold beyond the count requested of the backend
MaxExtraImages == 1
\* longest candidate list handed to chooseSwapSurfaceFormat
MaxFormats == 3

(***************************************************************************)
(* uint32_t values.  A value is the pair <<high 16 bits, low 16 bits>>, so *)
(* that 0xFFFFFFFF is representable; the code only compares such values.   *)
(***************************************************************************)
U32(n) == <<0, n>>

UINT32_MAX == <<65535, 65535>>

U32Less(a, b) == a[1] < b[1] \/ (a[1] = b[1] /\ a[2] < b[2])

\* std::clamp(v, lo, hi)
Clamp(v, lo, hi) == IF U32Less(v, lo) THEN lo ELSE IF U32Less(hi, v) THEN hi ELSE v

Extent2D(w, h) == [width |-> w, height |-> h]

SurfaceFormatKHR(f, cs) == [format |-> f, colorSpace |-> cs]

Range(s) == {s[i] : i \in DOMAIN s}

Min(a, b) == IF a < b THEN a ELSE b

Max(a, b) == IF a > b THEN a ELSE b

(***************************************************************************)
(* Selection policies.                                                     *)
(***************************************************************************)
chooseSwapExtent_noClamp(capabilities) ==
    IF capabilities.currentExtent.width # UINT32_MAX
    THEN capabilities.currentExtent
    ELSE Extent2D(U32(800), U32(600))

chooseSwapExtent(capabilities) ==
    IF capabilities.currentExtent.width # UINT32_MAX
    THEN capabilities.currentExtent
    ELSE Extent2D(Clamp(U32(800), capabilities.minImageExtent.width,
                        capabilities.maxImageExtent.width),
                  Clamp(U32(600), capabilities.minImageExtent.height,
                        capabilities.maxImageExtent.height))

IsPreferredFormat(f) == f.format = "B8G8R8A8_SRGB" /\ f.colorSpace = "SRGB_NONLINEAR"

\* index of the first element the loop returns on, 0 when the loop falls through
FirstPreferred(availableFormats) ==
    LET hits == {i \in DOMAIN availableFormats : IsPreferredFormat(availableFormats[i])}
    IN  IF hits = {} THEN 0 ELSE CHOOSE i \in hits : \A j \in hits : i <= j

chooseSwapSurfaceFormat_formatOnly(availableFormats) ==
    LET hits == {i \in DOMAIN availableFormats : availableFormats[i].format = "B8G8R8A8_SRGB"}
    IN  IF hits = {} THEN availableFormats[1]
        ELSE availableFormats[CHOOSE i \in hits : \A j \in hits : i <= j]

chooseSwapSurfaceFormat(availableFormats) ==
    IF FirstPreferred(availableFormats) # 0
    THEN availableFormats[FirstPreferred(availableFormats)]
    ELSE availableFormats[1]

\* the fallback taken from the head of the list instead of FIFO
chooseSwapPresentMode_firstListed(availablePresentModes) ==
    IF \E i \in DOMAIN availablePresentModes : availablePresentModes[i] = "MAILBOX"
    THEN "MAILBOX"
    ELSE IF availablePresentModes # << >>
         THEN availablePresentModes[1]
         ELSE "FIFO"

chooseSwapPresentMode(availablePresentModes) ==
    IF \E i \in DOMAIN availablePresentModes : availablePresentModes[i] = "MAILBOX"
    THEN "MAILBOX"
    ELSE "FIFO"

\* the upper limit applied even when maxImageCount is 0 ("no limit")
ImageCount_zeroIsLimit(capabilities) ==
    LET preferred == Max(3, capabilities.minImageCount)
    IN  IF preferred > capabilities.maxImageCount
        THEN capabilities.maxImageCount
        ELSE preferred

\* double buffering preferred instead of triple buffering
ImageCount_doubleBuffered(capabilities) ==
    LET preferred == Max(2, capabilities.minImageCount)
    IN  IF capabilities.maxImageCount > 0 /\ preferred > capabilities.maxImageCount
        THEN capabilities.maxImageCount
        ELSE preferred

\* the image count create() requests of the backend
ImageCount(capabilities) ==
    LET preferred == Max(3, capabilities.minImageCount)
    IN  IF capabilities.maxImageCount > 0 /\ preferred > capabilities.maxImageCount
        THEN capabilities.maxImageCount
        ELSE preferred

(***************************************************************************)
(* State.                                                                  *)
(***************************************************************************)
VARIABLES
    \* members of SwapChain
    swapChain,              \* the chain handle held, NullHandle when none
    swapChainImages,        \* the image handles retrieved from the chain
    swapChainImageViews,    \* the views held, each naming the image it views
    swapChainImageFormat,
    swapChainSurfaceFormat,
    swapChainExtent,
    \* locals of create()
    surfaceCapabilities,
    minImageCount,
    presentMode,
    newSwapChain,           \* the temporary vk::raii::SwapchainKHR of line 103
    raiiSwapChainImages,    \* the owning vk::raii::Image wrappers
    \* the calling thread
    pc,                     \* position inside the operation in progress
    op,                     \* the operation the caller invoked last
    \* the GPU backend
    liveChains,             \* chains created on the surface and not yet destroyed
    chainCount,             \* chains created so far
    destroyedImages,        \* images of live chains destroyed by vkDestroyImage
    \* the argument and the result of a selection policy applied on its own
    policyArg,
    policyRet,
    \* history of the run, read by the properties only
    lifecycle,              \* outcome of the last completed create()/cleanup()
    failedAt,               \* the call that threw in the operation invoked last
    fromState,              \* lifecycle when the operation invoked last began
    fromFailedAt,           \* failedAt when the operation invoked last began
    liveRecreates,          \* successful recreate() calls in a row, begun from Live
    liveCleanups,           \* cleanup() calls in a row, the first begun from Live
    pre                     \* the manager and the backend when cleanup() began

VARIABLES
    \* the build
    program,                \* the application class the entry point runs
    enableValidationLayers, \* false when built with NDEBUG
    \* members of the application object
    context,
    instance,
    debugMessenger,
    physicalGPU,
    GPU,
    graphicsQueue,
    window,
    \* locals of pickPhysicalGPU()
    gpus,                   \* the devices enumerated
    devIter,                \* position of find_if in gpus
    \* the process
    exception,              \* the exception in flight
    cerr,                   \* what was written to the error stream
    exitStatus,
    \* history of the run, read by the properties only
    created,                \* the GPU resources created so far in this run
    enumerated,             \* the devices pickPhysicalGPU() enumerated
    raised,                 \* the error raised in this run
    layerProperties,        \* the layers createInstance() was reported
    extensionProperties,    \* the instance extensions createInstance() was reported
    catches,                \* handlers entered so far
    signalPending           \* a resize/invalidation signal not yet answered

VARIABLES
    \* members of ProfilerUI
    uiMutex,                \* the thread holding the lock, NoThread when free
    frameHistory,           \* the rolling history, oldest frame first
    aggregatedStats,        \* zone name -> statistics
    totalFrames,
    maxHistory,
    \* the threads calling update() and render()
    threadPc,               \* position of each thread
    events,                 \* update(): what getEvents() returned to the thread
    frameIndex,             \* render(): the frame number read by the thread
    \* history of the run, read by the properties only
    arrivals,               \* every frame pushed so far, in the order pushed
    updateCalls             \* update() calls begun so far

members == <<swapChain, swapChainImages, swapChainImageViews, swapChainImageFormat,
             swapChainSurfaceFormat, swapChainExtent>>

locals == <<surfaceCapabilities, minImageCount, presentMode, newSwapChain,
            raiiSwapChainImages>>

backend == <<liveChains, chainCount, destroyedImages>>

policy == <<policyArg, policyRet>>

history == <<lifecycle, failedAt, fromState, fromFailedAt, liveRecreates, liveCleanups, pre>>

appMembers == <<context, instance, debugMessenger, physicalGPU, GPU, graphicsQueue, window>>

process == <<exception, cerr, exitStatus>>

reports == <<layerProperties, extensionProperties>>

appHistory == <<created, enumerated, raised, reports, catches, signalPending>>

application == <<program, enableValidationLayers, appMembers, gpus, devIter, process,
                 appHistory>>

swapChainManager == <<members, locals, op, backend, policy, history>>

profilerMembers == <<uiMutex, frameHistory, aggregatedStats, totalFrames, maxHistory>>

profilerUI == <<profilerMembers, threadPc, events, frameIndex, arrivals, updateCalls>>

vars == <<members, locals, pc, op, backend, policy, history, application, profilerUI>>

NullHandle == 0

None == "none"

\* a value not there yet, and a value that is
Nothing == << >>

Some(v) == <<v>>

\* the vk::raii members of the application object when they hold nullptr
NullPhysicalDevice ==
    [handle |-> NullHandle, apiVersion |-> 0, queueFamilies |-> << >>, extensions |-> {}]

NullDevice == [handle |-> NullHandle, physicalDevice |-> NullHandle, queueFamilyIndex |-> 0]

NullQueue == [handle |-> NullHandle, queueFamilyIndex |-> 0, queueIndex |-> 0]

NoException == << >>

(***************************************************************************)
(* What the backend may report for the surface.                            *)
(***************************************************************************)
SurfaceCapabilitiesReports ==
    {c \in [currentExtent : {Extent2D(U32(1280), U32(720)),
                             Extent2D(UINT32_MAX, UINT32_MAX)},
            minImageExtent : {Extent2D(U32(1), U32(1))},
            maxImageExtent : {Extent2D(U32(4096), U32(4096))},
            minImageCount : 1..MaxImageCount,
            maxImageCount : 0..MaxImageCount] :
        c.maxImageCount = 0 \/ c.maxImageCount >= c.minImageCount}

SurfaceFormatsReports ==
    {<<SurfaceFormatKHR("B8G8R8A8_SRGB", "SRGB_NONLINEAR")>>,
     <<SurfaceFormatKHR("R8G8B8A8_UNORM", "SRGB_NONLINEAR"),
       SurfaceFormatKHR("B8G8R8A8_SRGB", "SRGB_NONLINEAR")>>,
     <<SurfaceFormatKHR("R8G8B8A8_UNORM", "SRGB_NONLINEAR"),
       SurfaceFormatKHR("B8G8R8A8_SRGB", "HDR10_ST2084")>>}

PresentModesReports == {<<"FIFO">>, <<"FIFO", "MAILBOX">>}

\* the images of chain c, in the order getImages() returns them
ChainImages(c, n) == [i \in 1..n |-> [chain |-> c, index |-> i]]

\* the view vkutils::createImageView builds over an image
ImageView(image) == [chain |-> image.chain, index |-> image.index]

Snapshot == <<members, liveChains, destroyedImages>>

(***************************************************************************)
(* Initial state: a SwapChain on which nothing has been created yet.       *)
(***************************************************************************)
Constructed ==
    /\ swapChain = NullHandle
    /\ swapChainImages = <<>>
    /\ swapChainImageViews = <<>>
    /\ swapChainImageFormat = "UNDEFINED"
    /\ swapChainSurfaceFormat = SurfaceFormatKHR("UNDEFINED", "SRGB_NONLINEAR")
    /\ swapChainExtent = Extent2D(U32(0), U32(0))
    /\ surfaceCapabilities = None
    /\ minImageCount = 0
    /\ presentMode = None
    /\ newSwapChain = NullHandle
    /\ raiiSwapChainImages = <<>>
    /\ op = None
    /\ liveChains = {}
    /\ chainCount = 0
    /\ destroyedImages = {}
    /\ lifecycle = "Uninitialized"
    /\ failedAt = None
    /\ fromState = "Uninitialized"
    /\ fromFailedAt = None
    /\ liveRecreates = 0
    /\ liveCleanups = 0
    /\ pre = None

\* the process before main() is entered
NotRun ==
    /\ context = None
    /\ instance = NullHandle
    /\ debugMessenger = NullHandle
    /\ physicalGPU = NullPhysicalDevice
    /\ GPU = NullDevice
    /\ graphicsQueue = NullQueue
    /\ window = None
    /\ gpus = << >>
    /\ devIter = 0
    /\ exception = NoException
    /\ cerr = << >>
    /\ exitStatus = None
    /\ created = {}
    /\ enumerated = Nothing
    /\ raised = NoException
    /\ layerProperties = Nothing
    /\ extensionProperties = Nothing
    /\ catches = 0
    /\ signalPending = FALSE

NoThread == 0

\* no ProfilerUI object and no thread using one
NoProfilerUI ==
    /\ uiMutex = NoThread
    /\ frameHistory = << >>
    /\ aggregatedStats = << >>
    /\ totalFrames = 0
    /\ maxHistory = 0
    /\ threadPc = << >>
    /\ events = << >>
    /\ frameIndex = << >>
    /\ arrivals = << >>
    /\ updateCalls = 0

\* no application object: the SwapChain is exercised on its own
NotStarted ==
    /\ program = None
    /\ enableValidationLayers = FALSE
    /\ NotRun
    /\ NoProfilerUI

Init ==
    /\ Constructed
    /\ NotStarted
    /\ pc = "idle"
    /\ policyArg = None
    /\ policyRet = None

(***************************************************************************)
(* The caller invokes an operation.                                        *)
(***************************************************************************)
Begin(o) ==
    /\ pc = "idle"
    /\ op' = o
    /\ fromState' = lifecycle
    /\ fromFailedAt' = failedAt
    /\ failedAt' = None
    /\ liveRecreates' = IF o = "recreate" /\ lifecycle = "Live" THEN liveRecreates ELSE 0
    /\ liveCleanups' = IF o # "cleanup" THEN 0
                       ELSE IF lifecycle = "Live" THEN 1
                       ELSE IF liveCleanups >= 1 THEN 2
                       ELSE 0
    /\ pre' = IF o = "cleanup" THEN Snapshot ELSE None
    /\ UNCHANGED <<members, locals, backend, policy, application, profilerUI, lifecycle>>

CallCreate ==
    /\ chainCount < MaxChains
    /\ Begin("create")
    /\ pc' = "create_caps"

CallCleanup ==
    /\ Begin("cleanup")
    /\ pc' = "cleanup_views"

\* recreate(): cleanup() first, create() after it
CallRecreate ==
    /\ chainCount < MaxChains
    /\ Begin("recreate")
    /\ pc' = "cleanup_views"

(***************************************************************************)
(* cleanup()                                                               *)
(***************************************************************************)
\* swapChainImageViews.clear()
CleanupViews_skip ==
    /\ pc = "cleanup_views"
    /\ pc' = "cleanup_chain"
    /\ UNCHANGED <<members, locals, op, backend, policy, application, profilerUI, history>>

CleanupViews ==
    /\ pc = "cleanup_views"
    /\ swapChainImageViews' = <<>>
    /\ pc' = "cleanup_chain"
    /\ UNCHANGED <<swapChain, swapChainImages, swapChainImageFormat,
                   swapChainSurfaceFormat, swapChainExtent>>
    /\ UNCHANGED <<locals, op, backend, policy, application, profilerUI, history>>

\* swapChain = nullptr, and the return to the caller or to recreate()
CleanupChain_keepsHandle ==
    /\ pc = "cleanup_chain"
    /\ liveChains' = liveChains \ {swapChain}
    /\ destroyedImages' = {im \in destroyedImages : im.chain # swapChain}
    /\ lifecycle' = "Uninitialized"
    /\ pc' = IF op = "recreate" THEN "create_caps" ELSE "idle"
    /\ UNCHANGED <<members, locals, op, chainCount, policy, application, profilerUI>>
    /\ UNCHANGED <<failedAt, fromState, fromFailedAt, liveRecreates, liveCleanups, pre>>

CleanupChain_noRelease ==
    /\ pc = "cleanup_chain"
    /\ lifecycle' = "Uninitialized"
    /\ pc' = IF op = "recreate" THEN "create_caps" ELSE "idle"
    /\ UNCHANGED <<members, locals, op, backend, policy, application, profilerUI>>
    /\ UNCHANGED <<failedAt, fromState, fromFailedAt, liveRecreates, liveCleanups, pre>>

CleanupChain ==
    /\ pc = "cleanup_chain"
    /\ liveChains' = liveChains \ {swapChain}
    /\ destroyedImages' = {im \in destroyedImages : im.chain # swapChain}
    /\ swapChain' = NullHandle
    /\ lifecycle' = "Uninitialized"
    /\ pc' = IF op = "recreate" THEN "create_caps" ELSE "idle"
    /\ UNCHANGED <<swapChainImages, swapChainImageViews, swapChainImageFormat,
                   swapChainSurfaceFormat, swapChainExtent>>
    /\ UNCHANGED <<locals, op, chainCount, policy, application, profilerUI>>
    /\ UNCHANGED <<failedAt, fromState, fromFailedAt, liveRecreates, liveCleanups, pre>>

(***************************************************************************)
(* create()                                                                *)
(***************************************************************************)
\* a backend call of create() throws vk::SystemError
Throw(at) ==
    /\ failedAt' = at
    /\ pc' = "create_unwind"

\* physicalGPU.getSurfaceCapabilitiesKHR(*surface)
CreateCaps ==
    /\ pc = "create_caps"
    /\ \/ /\ \E c \in SurfaceCapabilitiesReports : surfaceCapabilities' = c
          /\ pc' = "create_format"
          /\ UNCHANGED failedAt
       \/ /\ Throw("caps")
          /\ UNCHANGED surfaceCapabilities
    /\ UNCHANGED <<members, minImageCount, presentMode, newSwapChain,
                   raiiSwapChainImages, op, backend, policy, application, profilerUI>>
    /\ UNCHANGED <<lifecycle, fromState, fromFailedAt, liveRecreates, liveCleanups, pre>>

\* the selections made but not stored in the members
CreateFormat_notStored ==
    /\ pc = "create_format"
    /\ \/ /\ pc' = "create_count"
          /\ UNCHANGED failedAt
       \/ Throw("formats")
    /\ UNCHANGED <<members, locals, op, backend, policy, application, profilerUI>>
    /\ UNCHANGED <<lifecycle, fromState, fromFailedAt, liveRecreates, liveCleanups, pre>>

\* the format query, chooseSwapSurfaceFormat and chooseSwapExtent
CreateFormat ==
    /\ pc = "create_format"
    /\ \/ /\ \E availableFormats \in SurfaceFormatsReports :
                LET chosenSurfaceFormat == chooseSwapSurfaceFormat(availableFormats)
                IN  /\ swapChainImageFormat' = chosenSurfaceFormat.format
                    /\ swapChainSurfaceFormat' = chosenSurfaceFormat
          /\ swapChainExtent' = chooseSwapExtent(surfaceCapabilities)
          /\ pc' = "create_count"
          /\ UNCHANGED failedAt
       \/ /\ Throw("formats")
          /\ UNCHANGED <<swapChainImageFormat, swapChainSurfaceFormat, swapChainExtent>>
    /\ UNCHANGED <<swapChain, swapChainImages, swapChainImageViews>>
    /\ UNCHANGED <<locals, op, backend, policy, application, profilerUI>>
    /\ UNCHANGED <<lifecycle, fromState, fromFailedAt, liveRecreates, liveCleanups, pre>>

\* the image count, the present mode query and chooseSwapPresentMode
CreateCount ==
    /\ pc = "create_count"
    /\ minImageCount' = ImageCount(surfaceCapabilities)
    /\ \/ /\ \E availablePresentModes \in PresentModesReports :
                presentMode' = chooseSwapPresentMode(availablePresentModes)
          /\ pc' = "create_chain_new"
          /\ UNCHANGED failedAt
       \/ /\ Throw("modes")
          /\ UNCHANGED presentMode
    /\ UNCHANGED <<members, surfaceCapabilities, newSwapChain, raiiSwapChainImages,
                   op, backend, policy, application, profilerUI>>
    /\ UNCHANGED <<lifecycle, fromState, fromFailedAt, liveRecreates, liveCleanups, pre>>

\* vk::raii::SwapchainKHR(device, swapChainCreateInfo): the right-hand side
\* of line 103, evaluated while swapChain still holds what it held
CreateChainNew ==
    /\ pc = "create_chain_new"
    /\ \/ /\ chainCount' = chainCount + 1
          /\ newSwapChain' = chainCount + 1
          /\ liveChains' = liveChains \cup {chainCount + 1}
          /\ pc' = "create_chain_assign"
          /\ UNCHANGED failedAt
       \/ /\ Throw("chain")
          /\ UNCHANGED <<chainCount, newSwapChain, liveChains>>
    /\ UNCHANGED <<members, surfaceCapabilities, minImageCount, presentMode,
                   raiiSwapChainImages, op, destroyedImages, policy, application, profilerUI>>
    /\ UNCHANGED <<lifecycle, fromState, fromFailedAt, liveRecreates, liveCleanups, pre>>

\* swapChain = <the temporary>: the move assignment of line 103 releases the
\* chain swapChain held and takes the new one
CreateChainAssign ==
    /\ pc = "create_chain_assign"
    /\ liveChains' = liveChains \ {swapChain}
    /\ destroyedImages' = {im \in destroyedImages : im.chain # swapChain}
    /\ swapChain' = newSwapChain
    /\ newSwapChain' = NullHandle
    /\ pc' = "create_images"
    /\ UNCHANGED <<swapChainImages, swapChainImageViews, swapChainImageFormat,
                   swapChainSurfaceFormat, swapChainExtent>>
    /\ UNCHANGED <<surfaceCapabilities, minImageCount, presentMode,
                   raiiSwapChainImages, op, chainCount, policy, application, profilerUI, history>>

\* the most images the chain may hold: the backend creates at least the
\* count requested and more only as far as maxImageCount allows
MostImages ==
    IF surfaceCapabilities.maxImageCount = 0
    THEN minImageCount + MaxExtraImages
    ELSE Max(minImageCount,
             Min(minImageCount + MaxExtraImages, surfaceCapabilities.maxImageCount))

\* swapChain.getImages() and the vk::raii::Image wrappers built around them
CreateImages ==
    /\ pc = "create_images"
    /\ \/ /\ \E n \in minImageCount..MostImages :
                /\ swapChainImages' = ChainImages(swapChain, n)
                /\ raiiSwapChainImages' = ChainImages(swapChain, n)
          /\ pc' = "create_views_clear"
          /\ UNCHANGED failedAt
       \/ /\ Throw("images")
          /\ UNCHANGED <<swapChainImages, raiiSwapChainImages>>
    /\ UNCHANGED <<swapChain, swapChainImageViews, swapChainImageFormat,
                   swapChainSurfaceFormat, swapChainExtent>>
    /\ UNCHANGED <<surfaceCapabilities, minImageCount, presentMode, newSwapChain,
                   op, backend, policy, application, profilerUI>>
    /\ UNCHANGED <<lifecycle, fromState, fromFailedAt, liveRecreates, liveCleanups, pre>>

\* swapChainImageViews.clear()
CreateViewsClear_skip ==
    /\ pc = "create_views_clear"
    /\ pc' = "create_views_loop"
    /\ UNCHANGED <<members, locals, op, backend, policy, application, profilerUI, history>>

CreateViewsClear ==
    /\ pc = "create_views_clear"
    /\ swapChainImageViews' = <<>>
    /\ pc' = "create_views_loop"
    /\ UNCHANGED <<swapChain, swapChainImages, swapChainImageFormat,
                   swapChainSurfaceFormat, swapChainExtent>>
    /\ UNCHANGED <<locals, op, backend, policy, application, profilerUI, history>>

\* the condition of the loop over raiiSwapChainImages
ViewLoopCond_stopsEarly == Len(swapChainImageViews) + 1 < Len(raiiSwapChainImages)

ViewLoopCond == Len(swapChainImageViews) < Len(raiiSwapChainImages)

\* one iteration: vkutils::createImageView and emplace_back
CreateView ==
    /\ pc = "create_views_loop"
    /\ ViewLoopCond
    /\ \/ /\ swapChainImageViews' =
                Append(swapChainImageViews,
                       ImageView(raiiSwapChainImages[Len(swapChainImageViews) + 1]))
          /\ UNCHANGED <<pc, failedAt>>
       \/ /\ Throw("view")
          /\ UNCHANGED swapChainImageViews
    /\ UNCHANGED <<swapChain, swapChainImages, swapChainImageFormat,
                   swapChainSurfaceFormat, swapChainExtent>>
    /\ UNCHANGED <<locals, op, backend, policy, application, profilerUI>>
    /\ UNCHANGED <<lifecycle, fromState, fromFailedAt, liveRecreates, liveCleanups, pre>>

\* the locals of create() go out of scope: every vk::raii::Image of
\* raiiSwapChainImages destroys the image it wraps
DestroyLocals ==
    /\ destroyedImages' = destroyedImages \cup Range(raiiSwapChainImages)
    /\ surfaceCapabilities' = None
    /\ minImageCount' = 0
    /\ presentMode' = None
    /\ newSwapChain' = NullHandle
    /\ raiiSwapChainImages' = <<>>

\* the loop is over: create() returns
CreateReturn ==
    /\ pc = "create_views_loop"
    /\ ~ViewLoopCond
    /\ DestroyLocals
    /\ lifecycle' = "Live"
    /\ liveRecreates' = IF op = "recreate" /\ fromState = "Live"
                        THEN Min(liveRecreates + 1, 2)
                        ELSE 0
    /\ pc' = "idle"
    /\ UNCHANGED <<members, op, liveChains, chainCount, policy, application, profilerUI>>
    /\ UNCHANGED <<failedAt, fromState, fromFailedAt, liveCleanups, pre>>

\* the exception leaves create() (and recreate(), which does not catch it)
CreateUnwind ==
    /\ pc = "create_unwind"
    /\ DestroyLocals
    /\ lifecycle' = "Failed"
    /\ liveRecreates' = 0
    /\ pc' = "idle"
    /\ UNCHANGED <<members, op, liveChains, chainCount, policy, application, profilerUI>>
    /\ UNCHANGED <<failedAt, fromState, fromFailedAt, liveCleanups, pre>>

Next ==
    \/ CallCreate
    \/ CallCleanup
    \/ CallRecreate
    \/ CleanupViews
    \/ CleanupChain
    \/ CreateCaps
    \/ CreateFormat
    \/ CreateCount
    \/ CreateChainNew
    \/ CreateChainAssign
    \/ CreateImages
    \/ CreateViewsClear
    \/ CreateView
    \/ CreateReturn
    \/ CreateUnwind

Spec == Init /\ [][Next]_vars

(***************************************************************************)
(* The selection policies applied on their own: the argument is drawn      *)
(* from a bounded set of backend reports and the policy is applied to it.  *)
(***************************************************************************)
ExtentSamples == {U32(1), U32(720), U32(4096), UINT32_MAX}

\* capability reports with minImageExtent <= maxImageExtent in both components
ExtentReports ==
    {c \in [currentExtent : [width : ExtentSamples, height : ExtentSamples],
            minImageExtent : [width : ExtentSamples, height : ExtentSamples],
            maxImageExtent : [width : ExtentSamples, height : ExtentSamples],
            minImageCount : {1},
            maxImageCount : {0}] :
        /\ ~U32Less(c.maxImageExtent.width, c.minImageExtent.width)
        /\ ~U32Less(c.maxImageExtent.height, c.minImageExtent.height)}

FormatSamples ==
    [format : {"B8G8R8A8_SRGB", "R8G8B8A8_UNORM"},
     colorSpace : {"SRGB_NONLINEAR", "HDR10_ST2084"}]

\* the non-empty candidate lists of at most MaxFormats entries
FormatReports == UNION {[1..n -> FormatSamples] : n \in 1..MaxFormats}

InitExtent ==
    /\ Constructed
    /\ NotStarted
    /\ pc = "policy"
    /\ policyArg \in ExtentReports
    /\ policyRet = None

ApplyChooseSwapExtent ==
    /\ pc = "policy"
    /\ policyRet' = chooseSwapExtent(policyArg)
    /\ pc' = "returned"
    /\ UNCHANGED <<members, locals, op, backend, policyArg, history, application, profilerUI>>

SpecExtent == InitExtent /\ [][ApplyChooseSwapExtent]_vars

InitFormat ==
    /\ Constructed
    /\ NotStarted
    /\ pc = "policy"
    /\ policyArg \in FormatReports
    /\ policyRet = None

ApplyChooseSwapSurfaceFormat ==
    /\ pc = "policy"
    /\ policyRet' = chooseSwapSurfaceFormat(policyArg)
    /\ pc' = "returned"
    /\ UNCHANGED <<members, locals, op, backend, policyArg, history, application, profilerUI>>

SpecFormat == InitFormat /\ [][ApplyChooseSwapSurfaceFormat]_vars

(***************************************************************************)
(* Properties.                                                             *)
(***************************************************************************)
CreatePcsBeforeChain == {"create_caps", "create_format", "create_count", "create_chain_new"}

\* every view held is the view of the image at its position, and every image
\* retrieved is an image of the chain held
OneViewPerImage ==
    /\ Len(swapChainImageViews) = Len(swapChainImages)
    /\ \A i \in DOMAIN swapChainImages :
          /\ swapChainImages[i].chain = swapChain
          /\ swapChainImageViews[i] = ImageView(swapChainImages[i])

HoldsOneLiveChain ==
    /\ swapChain # NullHandle
    /\ liveChains = {swapChain}

\* C1: over every sequence of create(), cleanup() and recreate(), create()
\* on a live chain included, at most one swap chain is live on the surface
\* at any moment: the chain held is released before a new one is built.
C1_NeverTwoLiveChains == Cardinality(liveChains) <= 1

\* C2: inside one recreate(), cleanup() has completed (the views released,
\* then the chain handle) before create() queries the capabilities or builds
\* anything: until the new chain is assigned the manager holds no view and no
\* chain handle and no older chain is live.
C2_CleanupCompletesBeforeCreate ==
    op = "recreate" =>
        /\ pc = "cleanup_chain" => swapChainImageViews = <<>>
        /\ pc \in CreatePcsBeforeChain =>
              /\ swapChainImageViews = <<>>
              /\ swapChain = NullHandle
              /\ liveChains = {}
        /\ pc = "create_chain_assign" =>
              /\ swapChainImageViews = <<>>
              /\ swapChain = NullHandle
              /\ liveChains = {newSwapChain}

C2_Witness ==
    /\ op = "recreate"
    /\ fromState = "Live"
    /\ pc = "create_chain_assign"

\* C3: in every execution of create(), cleanup() and recreate() in any order,
\* a step that releases a swap chain starts with no view held over an image
\* of that chain: views are released before their chain.
C3_ViewsReleasedBeforeChain ==
    [][\A c \in liveChains \ liveChains' :
          \A i \in DOMAIN swapChainImageViews : swapChainImageViews[i].chain # c]_vars

\* C4: whenever the SwapChain is at rest in Live (the last create() returned
\* and no cleanup() or create() has begun since), it holds one view per image
\* retrieved from the chain; between cleanup() and create() inside recreate()
\* it holds no view and no chain handle.
C4_LiveViewsMatchImages ==
    /\ (pc = "idle" /\ lifecycle = "Live") =>
          /\ Len(swapChainImageViews) = Len(swapChainImages)
          /\ OneViewPerImage
    /\ (op = "recreate" /\ pc = "create_caps") =>
          /\ swapChainImageViews = <<>>
          /\ swapChain = NullHandle

C4_Witness ==
    /\ pc = "idle"
    /\ lifecycle = "Live"
    /\ op = "recreate"
    /\ Len(swapChainImageViews) >= 3

\* C5: the manager never destroys an image of a swap chain individually,
\* during create() or after it: images go away only with their chain.
C5_ImagesNeverFreedIndividually == destroyedImages = {}

\* C6: from Live, recreate() called twice in a row against a backend that
\* accepts every request leaves the SwapChain Live after each call, with a
\* non-empty image set and one view per image.
C6_RecreateTwiceStaysLive ==
    (pc = "idle" /\ liveRecreates >= 1) =>
        /\ lifecycle = "Live"
        /\ HoldsOneLiveChain
        /\ Len(swapChainImages) > 0
        /\ OneViewPerImage

C6_Witness ==
    /\ pc = "idle"
    /\ liveRecreates = 2

\* C7: cleanup() called from Uninitialized changes nothing: the manager and
\* the backend are as they were when it began, with no view and no chain
\* handle and nothing released; so cleanup(); cleanup() from Live ends in the
\* state a single cleanup() ends in.
C7_CleanupIdempotent ==
    (pc = "idle" /\ op = "cleanup" /\ fromState = "Uninitialized") =>
        /\ Snapshot = pre
        /\ lifecycle = "Uninitialized"
        /\ swapChain = NullHandle
        /\ swapChainImageViews = <<>>
        /\ swapChain \notin liveChains

C7_Witness ==
    /\ pc = "idle"
    /\ op = "cleanup"
    /\ fromState = "Uninitialized"
    /\ liveCleanups = 2
    /\ pre[2] = {}

\* C8: a recreate() that follows a create() which failed at the chain or at
\* an image view never has two chains live, and when the backend accepts
\* every request it ends Live with one view per image of the new chain and
\* no view of the failed attempt.
C8_RecreateRecoversAfterFailure ==
    (op = "recreate" /\ fromState = "Failed" /\ fromFailedAt \in {"chain", "view"}) =>
        /\ Cardinality(liveChains) <= 1
        /\ (pc = "idle" /\ failedAt = None) =>
              /\ lifecycle = "Live"
              /\ HoldsOneLiveChain
              /\ OneViewPerImage
              /\ \A i \in DOMAIN swapChainImageViews :
                    swapChainImageViews[i].chain = chainCount

C8_Witness ==
    /\ op = "recreate"
    /\ fromState = "Failed"
    /\ fromFailedAt = "view"
    /\ pc = "idle"
    /\ failedAt = None
    /\ swapChainImageViews # <<>>

ExtentInRange(e, capabilities) ==
    /\ ~U32Less(e.width, capabilities.minImageExtent.width)
    /\ ~U32Less(capabilities.maxImageExtent.width, e.width)
    /\ ~U32Less(e.height, capabilities.minImageExtent.height)
    /\ ~U32Less(capabilities.maxImageExtent.height, e.height)

\* C9 as stated: when currentExtent is (UINT32_MAX, UINT32_MAX) the extent
\* returned lies in [minImageExtent, maxImageExtent] componentwise; for every
\* other input, one with a single UINT32_MAX component included, it is
\* currentExtent.
C9_ExtentAsStated ==
    pc = "returned" =>
        IF policyArg.currentExtent = Extent2D(UINT32_MAX, UINT32_MAX)
        THEN ExtentInRange(policyRet, policyArg)
        ELSE policyRet = policyArg.currentExtent

\* C9 amended: when currentExtent.width is UINT32_MAX, whatever the height,
\* the extent returned lies in [minImageExtent, maxImageExtent]
\* componentwise; for every other input, one whose height alone is
\* UINT32_MAX included, it is currentExtent.
C9_ExtentByWidthSentinel ==
    pc = "returned" =>
        IF policyArg.currentExtent.width = UINT32_MAX
        THEN ExtentInRange(policyRet, policyArg)
        ELSE policyRet = policyArg.currentExtent

C9_Witness ==
    /\ pc = "returned"
    /\ policyArg.currentExtent.width = UINT32_MAX
    /\ policyArg.currentExtent.height # UINT32_MAX
    /\ policyRet # policyArg.currentExtent
    /\ policyRet.width = policyArg.minImageExtent.width
    /\ policyRet.width # U32(800)

\* C10: for every non-empty candidate list holding (B8G8R8A8_SRGB,
\* SRGB_NONLINEAR) at any position the format returned is that pair; for
\* every non-empty list without it, also when only the format or only the
\* color space matches, it is the first element.
C10_PreferredFormatOrFirst ==
    pc = "returned" =>
        IF \E i \in DOMAIN policyArg :
              policyArg[i] = SurfaceFormatKHR("B8G8R8A8_SRGB", "SRGB_NONLINEAR")
        THEN policyRet = SurfaceFormatKHR("B8G8R8A8_SRGB", "SRGB_NONLINEAR")
        ELSE policyRet = policyArg[1]

C10_Witness ==
    /\ pc = "returned"
    /\ Len(policyArg) = 3
    /\ policyArg[1] = SurfaceFormatKHR("B8G8R8A8_SRGB", "HDR10_ST2084")
    /\ policyArg[2] = SurfaceFormatKHR("R8G8B8A8_UNORM", "SRGB_NONLINEAR")
    /\ policyArg[3] = SurfaceFormatKHR("B8G8R8A8_SRGB", "SRGB_NONLINEAR")
    /\ policyRet = policyArg[3]

(***************************************************************************)
(* chooseSwapPresentMode on its own: every list of at most MaxModes        *)
(* present modes, the empty list included.                                 *)
(***************************************************************************)
MaxModes == 3

PresentModeKHR == {"IMMEDIATE", "MAILBOX", "FIFO", "FIFO_RELAXED"}

PresentModeLists ==
    UNION {[1..n -> PresentModeKHR] : n \in 0..MaxModes}

InitPresentMode ==
    /\ Constructed
    /\ NotStarted
    /\ pc = "policy"
    /\ policyArg \in PresentModeLists
    /\ policyRet = None

ApplyChooseSwapPresentMode ==
    /\ pc = "policy"
    /\ policyRet' = chooseSwapPresentMode(policyArg)
    /\ pc' = "returned"
    /\ UNCHANGED <<members, locals, op, backend, policyArg, history, application, profilerUI>>

SpecPresentMode == InitPresentMode /\ [][ApplyChooseSwapPresentMode]_vars

\* C11: the present mode selected is MAILBOX when the list offers MAILBOX
\* and FIFO otherwise; no other mode is ever selected, whatever else the
\* list offers.
C11_MailboxElseFifo ==
    pc = "returned" =>
        /\ ("MAILBOX" \in Range(policyArg)) => policyRet = "MAILBOX"
        /\ ("MAILBOX" \notin Range(policyArg)) => policyRet = "FIFO"
        /\ policyRet \in {"MAILBOX", "FIFO"}

\* a list offering neither MAILBOX nor FIFO, for which FIFO was selected
C11_Witness ==
    /\ pc = "returned"
    /\ policyArg = <<"IMMEDIATE", "FIFO_RELAXED">>
    /\ policyRet = "FIFO"

(***************************************************************************)
(* The image count on its own: every pair (minImageCount, maxImageCount)   *)
(* up to MaxCountArg, the pairs a conformant surface never reports         *)
(* included.                                                               *)
(***************************************************************************)
MaxCountArg == 7

ImageCountReports ==
    [minImageCount : 0..MaxCountArg, maxImageCount : 0..MaxCountArg]

InitImageCount ==
    /\ Constructed
    /\ NotStarted
    /\ pc = "policy"
    /\ policyArg \in ImageCountReports
    /\ policyRet = None

ApplyImageCount ==
    /\ pc = "policy"
    /\ policyRet' = ImageCount(policyArg)
    /\ pc' = "returned"
    /\ UNCHANGED <<members, locals, op, backend, policyArg, history, application, profilerUI>>

SpecImageCount == InitImageCount /\ [][ApplyImageCount]_vars

\* C12: the image count requested is 3, raised to minImageCount when that
\* is larger, then lowered to maxImageCount when maxImageCount is not 0;
\* with maxImageCount = 2 the count requested is 2.
C12_ImageCountClamped ==
    pc = "returned" =>
        LET wanted == Max(3, policyArg.minImageCount)
        IN  /\ policyArg.maxImageCount = 0 => policyRet = wanted
            /\ policyArg.maxImageCount # 0 =>
                   policyRet = Min(wanted, policyArg.maxImageCount)
            /\ policyArg.maxImageCount = 2 => policyRet = 2

\* the scenario of the specification: three images wanted, two allowed
C12_Witness ==
    /\ pc = "returned"
    /\ policyArg.minImageCount = 1
    /\ policyArg.maxImageCount = 2
    /\ policyRet = 2

\* C13 as stated: when create() returns normally, the views held are as
\* many as the images, at least max(3, minImageCount) and at most
\* maxImageCount when that is not 0.
C13_CountAsStated ==
    [][(pc = "create_views_loop" /\ pc' = "idle") =>
          /\ Len(swapChainImageViews') = Len(swapChainImages')
          /\ Len(swapChainImages') >= Max(3, surfaceCapabilities.minImageCount)
          /\ surfaceCapabilities.maxImageCount # 0 =>
                 Len(swapChainImages') <= surfaceCapabilities.maxImageCount]_pc

\* C13: when create() returns normally, the views held are as many as the
\* images; that number is at most maxImageCount when maxImageCount is not
\* 0, and at least max(3, minImageCount) lowered to maxImageCount when
\* maxImageCount is not 0.
C13_CountWithinLimits ==
    [][(pc = "create_views_loop" /\ pc' = "idle") =>
          LET wanted == Max(3, surfaceCapabilities.minImageCount)
              atLeast == IF surfaceCapabilities.maxImageCount # 0
                         THEN Min(wanted, surfaceCapabilities.maxImageCount)
                         ELSE wanted
          IN  /\ Len(swapChainImageViews') = Len(swapChainImages')
              /\ Len(swapChainImages') >= atLeast
              /\ surfaceCapabilities.maxImageCount # 0 =>
                     Len(swapChainImages') <= surfaceCapabilities.maxImageCount]_pc

\* a create() that returned with two images: fewer than three, which only
\* a surface limited to two images allows
C13_Witness ==
    /\ pc = "idle"
    /\ lifecycle = "Live"
    /\ Len(swapChainImages) = 2
    /\ Len(swapChainImageViews) = 2

(***************************************************************************)
(* The application: the entry points and the application classes they      *)
(* run.  AcceleRender is the class of main.cpp; HelloTriangleApplication   *)
(* and the entry point that runs a VulkanRenderer are the older ones.      *)
(***************************************************************************)
MaxGpus == 2

Programs == {"AcceleRender", "HelloTriangleApplication", "VulkanRenderer"}

validationLayers == <<"VK_LAYER_KHRONOS_validation">>

\* the device extensions every candidate must report
gpuExtensions ==
    <<"VK_KHR_swapchain", "VK_KHR_spirv_1_4", "VK_KHR_synchronization2",
      "VK_KHR_create_renderpass2">>

\* what glfwGetRequiredInstanceExtensions() names
glfwExtensions == <<"VK_KHR_surface", "VK_KHR_xcb_surface">>

VK_MAKE_API_VERSION(variant, major, minor, patch) ==
    variant * 536870912 + major * 4194304 + minor * 4096 + patch

VK_API_VERSION_1_3 == VK_MAKE_API_VERSION(0, 1, 3, 0)

\* the layers and the instance extensions an installation may report
LayerNames == {"VK_LAYER_KHRONOS_validation", "VK_LAYER_LUNARG_api_dump"}

InstanceExtensionNames ==
    {"VK_KHR_surface", "VK_KHR_xcb_surface", "VK_EXT_debug_utils",
     "VK_KHR_get_physical_device_properties2"}

\* the devices an installation may enumerate: at most MaxGpus of them, in
\* any order, each with its own version, queue families and extensions
ApiVersions ==
    {VK_MAKE_API_VERSION(0, 1, 2, 198), VK_API_VERSION_1_3,
     VK_MAKE_API_VERSION(0, 1, 4, 309)}

QueueFamilyReports ==
    {<< >>, <<{"COMPUTE", "TRANSFER"}>>,
     <<{"TRANSFER"}, {"GRAPHICS", "COMPUTE", "TRANSFER"}, {"GRAPHICS"}>>}

DeviceExtensionReports ==
    {Range(gpuExtensions),
     Range(gpuExtensions) \ {"VK_KHR_synchronization2"},
     Range(gpuExtensions) \cup {"VK_KHR_maintenance1"}}

PhysicalDevices(n) ==
    [handle : 1..n, apiVersion : ApiVersions,
     queueFamilies : QueueFamilyReports, extensions : DeviceExtensionReports]

GpuLists ==
    UNION {{list \in [1..n -> PhysicalDevices(n)] :
               \A i \in 1..n : list[i].handle = i} : n \in 0..MaxGpus}

\* the requirements of createInstance(), in the order they are tested
RequiredLayers ==
    IF program = "AcceleRender" /\ enableValidationLayers
    THEN validationLayers
    ELSE << >>

getRequiredExtensions ==
    IF program = "AcceleRender"
    THEN glfwExtensions
         \o (IF enableValidationLayers THEN <<"VK_EXT_debug_utils">> ELSE << >>)
         \o <<"VK_KHR_get_physical_device_properties2">>
    ELSE glfwExtensions

\* index of the first name of required that reported lacks, 0 when none
FirstMissing(required, reported) ==
    LET lacking == {i \in DOMAIN required : required[i] \notin reported}
    IN  IF lacking = {} THEN 0 ELSE CHOOSE i \in lacking : \A j \in lacking : i <= j

\* index of the first queue family with the graphics bit, Len + 1 when none
\* (std::ranges::find_if returning end())
FirstGraphicsFamily(queueFamilies) ==
    LET hits == {i \in DOMAIN queueFamilies : "GRAPHICS" \in queueFamilies[i]}
    IN  IF hits = {}
        THEN Len(queueFamilies) + 1
        ELSE CHOOSE i \in hits : \A j \in hits : i <= j

\* the loop over gpuExtensions inside the lambda of pickPhysicalGPU()
RECURSIVE ExtensionsFound(_, _, _)
ExtensionsFound(extensions, k, found) ==
    IF k > Len(gpuExtensions)
    THEN found
    ELSE ExtensionsFound(extensions, k + 1, found /\ gpuExtensions[k] \in extensions)

\* the test of the queue families dropped
IsSuitable_noGraphicsTest(gpu) ==
    LET versionOk == gpu.apiVersion >= VK_API_VERSION_1_3
    IN  versionOk /\ ExtensionsFound(gpu.extensions, 1, TRUE)

\* the lambda of pickPhysicalGPU(): isSuitable
IsSuitable(gpu) ==
    LET versionOk == gpu.apiVersion >= VK_API_VERSION_1_3
        qfpIter == FirstGraphicsFamily(gpu.queueFamilies)
        hasGraphics == versionOk /\ qfpIter <= Len(gpu.queueFamilies)
    IN  hasGraphics /\ ExtensionsFound(gpu.extensions, 1, TRUE)

build == <<program, enableValidationLayers>>

InitApp ==
    /\ Constructed
    /\ policyArg = None
    /\ policyRet = None
    /\ pc = "main"
    /\ program \in Programs
    /\ enableValidationLayers \in BOOLEAN
    /\ NotRun
    /\ NoProfilerUI

\* an exception is thrown inside the try block of main()
Raise(what) ==
    /\ exception' = what
    /\ raised' = what
    /\ pc' = "catch"

\* the application object goes out of scope: its vk::raii members are
\* destroyed, the window pointer is not
DestroyApp ==
    /\ context' = None
    /\ instance' = NullHandle
    /\ debugMessenger' = NullHandle
    /\ physicalGPU' = NullPhysicalDevice
    /\ GPU' = NullDevice
    /\ graphicsQueue' = NullQueue

\* main(): the application object is constructed inside the try block; the
\* constructor of vk::raii::Context throws when the loader is unavailable
ConstructApp ==
    /\ pc = "main"
    /\ program \in {"AcceleRender", "HelloTriangleApplication"}
    /\ \/ /\ context' = "loaded"
          /\ pc' = "initWindow"
          /\ UNCHANGED <<exception, raised>>
       \/ /\ Raise(<<"Failed to load vulkan library!">>)
          /\ UNCHANGED context
    /\ UNCHANGED <<build, instance, debugMessenger, physicalGPU, GPU, graphicsQueue,
                   window, gpus, devIter, cerr, exitStatus, created, enumerated,
                   reports, catches, signalPending, swapChainManager, profilerUI>>

\* the older main(): the VulkanRenderer is constructed before the try block
ConstructVulkanRenderer ==
    /\ pc = "main"
    /\ program = "VulkanRenderer"
    /\ \/ /\ context' = "loaded"
          /\ pc' = "run"
          /\ UNCHANGED <<exception, raised>>
       \/ /\ exception' = <<"Failed to load vulkan library!">>
          /\ raised' = <<"Failed to load vulkan library!">>
          /\ pc' = "terminate"
          /\ UNCHANGED context
    /\ UNCHANGED <<build, instance, debugMessenger, physicalGPU, GPU, graphicsQueue,
                   window, gpus, devIter, cerr, exitStatus, created, enumerated,
                   reports, catches, signalPending, swapChainManager, profilerUI>>

\* app.run() of the VulkanRenderer: it returns or it throws
RunVulkanRenderer ==
    /\ pc = "run"
    /\ \/ /\ pc' = "return"
          /\ UNCHANGED <<exception, raised>>
       \/ Raise(<<"VulkanRenderer::run">>)
    /\ UNCHANGED <<build, appMembers, gpus, devIter, cerr, exitStatus, created,
                   enumerated, reports, catches, signalPending, swapChainManager, profilerUI>>

initWindow ==
    /\ pc = "initWindow"
    /\ window' = "window"
    /\ pc' = "createInstance"
    /\ UNCHANGED <<build, context, instance, debugMessenger, physicalGPU, GPU,
                   graphicsQueue, gpus, devIter, process, appHistory,
                   swapChainManager, profilerUI>>

\* createInstance(): the test of the required layers
CreateInstanceLayers ==
    /\ pc = "createInstance"
    /\ layerProperties' \in {Some(reported) : reported \in SUBSET LayerNames}
    /\ LET lacking == FirstMissing(RequiredLayers, layerProperties'[1])
       IN  IF lacking # 0
           THEN Raise(<<"Required layer not supported: ", RequiredLayers[lacking]>>)
           ELSE /\ pc' = "createInstance_extensions"
                /\ UNCHANGED <<exception, raised>>
    /\ UNCHANGED extensionProperties
    /\ UNCHANGED <<build, appMembers, gpus, devIter, cerr, exitStatus, created,
                   enumerated, catches, signalPending, swapChainManager, profilerUI>>

\* the test of the required extensions passes whatever is reported
CreateInstanceExtensions_unchecked ==
    /\ pc = "createInstance_extensions"
    /\ extensionProperties' \in {Some(reported) : reported \in SUBSET InstanceExtensionNames}
    /\ pc' = "createInstance_instance"
    /\ UNCHANGED <<build, appMembers, gpus, devIter, process, created, enumerated,
                   raised, layerProperties, catches, signalPending,
                   swapChainManager, profilerUI>>

\* createInstance(): the test of the required instance extensions
CreateInstanceExtensions ==
    /\ pc = "createInstance_extensions"
    /\ extensionProperties' \in {Some(reported) : reported \in SUBSET InstanceExtensionNames}
    /\ LET lacking == FirstMissing(getRequiredExtensions, extensionProperties'[1])
       IN  IF lacking # 0
           THEN Raise(<<IF program = "AcceleRender"
                        THEN "Required extension not supported: "
                        ELSE "Required GLFW extension not supported: ",
                        getRequiredExtensions[lacking]>>)
           ELSE /\ pc' = "createInstance_instance"
                /\ UNCHANGED <<exception, raised>>
    /\ UNCHANGED layerProperties
    /\ UNCHANGED <<build, appMembers, gpus, devIter, cerr, exitStatus, created,
                   enumerated, catches, signalPending, swapChainManager, profilerUI>>

\* createInstance(): instance = vk::raii::Instance(context, createInfo);
\* initVulkan() of HelloTriangleApplication ends here
CreateInstanceInstance ==
    /\ pc = "createInstance_instance"
    /\ \/ /\ instance' = 1
          /\ created' = created \cup {"instance"}
          /\ pc' = IF program = "AcceleRender" THEN "setupDebugMessenger" ELSE "mainLoop"
          /\ UNCHANGED <<exception, raised>>
       \/ /\ Raise(<<"vk::raii::Instance">>)
          /\ UNCHANGED <<instance, created>>
    /\ UNCHANGED <<build, context, debugMessenger, physicalGPU, GPU, graphicsQueue,
                   window, gpus, devIter, cerr, exitStatus, enumerated, reports,
                   catches, signalPending, swapChainManager, profilerUI>>

\* setupDebugMessenger(): the messenger created is not stored in debugMessenger
setupDebugMessenger ==
    /\ pc = "setupDebugMessenger"
    /\ IF ~enableValidationLayers
       THEN /\ pc' = "pickPhysicalGPU"
            /\ UNCHANGED <<exception, raised, created>>
       ELSE \/ /\ created' = created \cup {"messenger"}
               /\ pc' = "pickPhysicalGPU"
               /\ UNCHANGED <<exception, raised>>
            \/ /\ Raise(<<"createDebugUtilsMessengerEXT">>)
               /\ UNCHANGED created
    /\ UNCHANGED <<build, appMembers, gpus, devIter, cerr, exitStatus, enumerated,
                   reports, catches, signalPending, swapChainManager, profilerUI>>

\* pickPhysicalGPU(): instance.enumeratePhysicalDevices()
PickPhysicalGPUEnumerate ==
    /\ pc = "pickPhysicalGPU"
    /\ \/ /\ \E list \in GpuLists :
                /\ gpus' = list
                /\ enumerated' = Some(list)
          /\ devIter' = 1
          /\ pc' = "pickPhysicalGPU_find"
          /\ UNCHANGED <<exception, raised>>
       \/ /\ Raise(<<"enumeratePhysicalDevices">>)
          /\ UNCHANGED <<gpus, enumerated, devIter>>
    /\ UNCHANGED <<build, appMembers, cerr, exitStatus, created, reports, catches,
                   signalPending, swapChainManager, profilerUI>>

\* find_if goes on after a suitable candidate and keeps the last one
PickPhysicalGPUCandidate_keepsLast ==
    /\ pc = "pickPhysicalGPU_find"
    /\ devIter <= Len(gpus)
    /\ physicalGPU' = IF IsSuitable(gpus[devIter]) THEN gpus[devIter] ELSE physicalGPU
    /\ IF devIter = Len(gpus) /\ physicalGPU'.handle # NullHandle
       THEN /\ gpus' = << >>
            /\ devIter' = 0
            /\ pc' = "pickLogicalGPU"
       ELSE /\ devIter' = devIter + 1
            /\ UNCHANGED <<gpus, pc>>
    /\ UNCHANGED <<build, context, instance, debugMessenger, GPU, graphicsQueue,
                   window, process, appHistory, swapChainManager, profilerUI>>

\* pickPhysicalGPU(): the lambda of find_if applied to one candidate;
\* find_if stops at the first candidate for which it returns true
PickPhysicalGPUCandidate ==
    /\ pc = "pickPhysicalGPU_find"
    /\ devIter <= Len(gpus)
    /\ IF IsSuitable(gpus[devIter])
       THEN /\ physicalGPU' = gpus[devIter]
            /\ gpus' = << >>
            /\ devIter' = 0
            /\ pc' = "pickLogicalGPU"
       ELSE /\ devIter' = devIter + 1
            /\ UNCHANGED <<physicalGPU, gpus, pc>>
    /\ UNCHANGED <<build, context, instance, debugMessenger, GPU, graphicsQueue,
                   window, process, appHistory, swapChainManager, profilerUI>>

\* the error of pickPhysicalGPU() is not thrown
PickPhysicalGPUNone_goesOn ==
    /\ pc = "pickPhysicalGPU_find"
    /\ devIter > Len(gpus)
    /\ gpus' = << >>
    /\ devIter' = 0
    /\ pc' = "mainLoop"
    /\ UNCHANGED <<build, appMembers, process, appHistory, swapChainManager, profilerUI>>

\* pickPhysicalGPU(): devIter == gpus.end()
PickPhysicalGPUNone ==
    /\ pc = "pickPhysicalGPU_find"
    /\ devIter > Len(gpus)
    /\ Raise(<<"Failed to find a GPU that supports Vulkan 1.3!">>)
    /\ gpus' = << >>
    /\ devIter' = 0
    /\ UNCHANGED <<build, appMembers, cerr, exitStatus, created, enumerated, reports,
                   catches, signalPending, swapChainManager, profilerUI>>

\* pickLogicalGPU(): the first graphics family, the assertion on it, the
\* device and the queue.  assert() is compiled out by NDEBUG, which is also
\* what makes enableValidationLayers false; without it a family index past
\* the end goes to the driver, which may reject it or not.
pickLogicalGPU ==
    /\ pc = "pickLogicalGPU"
    /\ LET queueFamilyProperties == physicalGPU.queueFamilies
           graphicsQueueFamilyProperty == FirstGraphicsFamily(queueFamilyProperties)
           graphicsIndex == graphicsQueueFamilyProperty - 1
       IN  IF graphicsQueueFamilyProperty > Len(queueFamilyProperties)
              /\ enableValidationLayers
           THEN /\ exitStatus' = "SIGABRT"
                /\ pc' = "exited"
                /\ UNCHANGED <<GPU, graphicsQueue, created, exception, raised>>
           ELSE \/ /\ GPU' = [handle |-> 1, physicalDevice |-> physicalGPU.handle,
                              queueFamilyIndex |-> graphicsIndex]
                   /\ graphicsQueue' = [handle |-> 1, queueFamilyIndex |-> graphicsIndex,
                                        queueIndex |-> 0]
                   /\ created' = created \cup {"device", "queue"}
                   /\ pc' = "mainLoop"
                   /\ UNCHANGED <<exception, raised, exitStatus>>
                \/ /\ Raise(<<"vk::raii::Device">>)
                   /\ UNCHANGED <<GPU, graphicsQueue, created, exitStatus>>
    /\ UNCHANGED <<build, context, instance, debugMessenger, physicalGPU, window,
                   gpus, devIter, cerr, enumerated, reports, catches, signalPending,
                   swapChainManager, profilerUI>>

\* mainLoop(): while (!glfwWindowShouldClose(window))
MainLoopTest ==
    /\ pc = "mainLoop"
    /\ \E glfwWindowShouldClose \in BOOLEAN :
          pc' = IF glfwWindowShouldClose THEN "cleanup" ELSE "glfwPollEvents"
    /\ UNCHANGED <<build, appMembers, gpus, devIter, process, appHistory,
                   swapChainManager, profilerUI>>

\* glfwPollEvents(): the windowing layer may have a resize/invalidation
\* signal among the events; no callback is registered for it
glfwPollEvents ==
    /\ pc = "glfwPollEvents"
    /\ \E signal \in BOOLEAN : signalPending' = (signalPending \/ signal)
    /\ pc' = "mainLoop"
    /\ UNCHANGED <<build, appMembers, gpus, devIter, process, created, enumerated,
                   raised, reports, catches, swapChainManager, profilerUI>>

\* cleanup(): glfwDestroyWindow, glfwTerminate
cleanup ==
    /\ pc = "cleanup"
    /\ window' = None
    /\ pc' = "return"
    /\ UNCHANGED <<build, context, instance, debugMessenger, physicalGPU, GPU,
                   graphicsQueue, gpus, devIter, process, appHistory,
                   swapChainManager, profilerUI>>

\* run() returned: return EXIT_SUCCESS
ReturnSuccess ==
    /\ pc = "return"
    /\ DestroyApp
    /\ exitStatus' = "EXIT_SUCCESS"
    /\ pc' = "exited"
    /\ UNCHANGED <<build, window, gpus, devIter, exception, cerr, appHistory,
                   swapChainManager, profilerUI>>

\* catch (const std::exception &e): the message is printed, EXIT_FAILURE
Catch ==
    /\ pc = "catch"
    /\ DestroyApp
    /\ cerr' = Append(cerr, exception)
    /\ exception' = NoException
    /\ catches' = catches + 1
    /\ exitStatus' = "EXIT_FAILURE"
    /\ pc' = "exited"
    /\ UNCHANGED <<build, window, gpus, devIter, created, enumerated, raised,
                   reports, signalPending, swapChainManager, profilerUI>>

\* an exception thrown outside every try block: std::terminate
Terminate ==
    /\ pc = "terminate"
    /\ exitStatus' = "SIGABRT"
    /\ pc' = "exited"
    /\ UNCHANGED <<build, appMembers, gpus, devIter, exception, cerr, appHistory,
                   swapChainManager, profilerUI>>

NextApp ==
    \/ ConstructApp
    \/ ConstructVulkanRenderer
    \/ RunVulkanRenderer
    \/ initWindow
    \/ CreateInstanceLayers
    \/ CreateInstanceExtensions
    \/ CreateInstanceInstance
    \/ setupDebugMessenger
    \/ PickPhysicalGPUEnumerate
    \/ PickPhysicalGPUCandidate
    \/ PickPhysicalGPUNone
    \/ pickLogicalGPU
    \/ MainLoopTest
    \/ glfwPollEvents
    \/ cleanup
    \/ ReturnSuccess
    \/ Catch
    \/ Terminate

SpecApp == InitApp /\ [][NextApp]_vars

(***************************************************************************)
(* Properties of the application.                                          *)
(***************************************************************************)
\* a candidate is accepted: version 1.3 or later, a graphics queue family,
\* every required device extension
Accepted(gpu) ==
    /\ gpu.apiVersion >= VK_MAKE_API_VERSION(0, 1, 3, 0)
    /\ \E family \in Range(gpu.queueFamilies) : "GRAPHICS" \in family
    /\ \A extension \in Range(gpuExtensions) : extension \in gpu.extensions

\* the positions of the accepted candidates in the enumeration
AcceptedPositions ==
    IF enumerated = Nothing
    THEN {}
    ELSE {i \in DOMAIN enumerated[1] : Accepted(enumerated[1][i])}

NoDeviceMessage == <<"Failed to find a GPU that supports Vulkan 1.3!">>

\* C14: pickPhysicalGPU() passes over every candidate that is not accepted
\* and selects the first accepted candidate of the enumeration, whatever
\* comes after it; it fails exactly when no candidate is accepted.
C14_FirstAcceptedSelected ==
    /\ pc = "pickPhysicalGPU_find" =>
          /\ physicalGPU = NullPhysicalDevice
          /\ \A i \in AcceptedPositions : i >= devIter
    /\ pc = "pickLogicalGPU" =>
          /\ AcceptedPositions # {}
          /\ \A i \in AcceptedPositions : physicalGPU.handle <= i
          /\ physicalGPU = enumerated[1][physicalGPU.handle]
          /\ physicalGPU.handle \in AcceptedPositions
    /\ raised = NoDeviceMessage => AcceptedPositions = {}

\* two accepted candidates, the second of a later version than the first:
\* the first was selected
C14_Witness ==
    /\ pc = "pickLogicalGPU"
    /\ AcceptedPositions = {1, 2}
    /\ enumerated[1][2].apiVersion > enumerated[1][1].apiVersion
    /\ physicalGPU.handle = 1

\* C15: when no enumerated device is accepted, none at all included, no
\* physical device is selected, pickLogicalGPU() is not entered, no device
\* and no queue is created, the main loop is not reached, and the run ends
\* with the error of pickPhysicalGPU().
C15_NoSuitableDeviceAborts ==
    (enumerated # Nothing /\ AcceptedPositions = {}) =>
        /\ pc \in {"pickPhysicalGPU_find", "catch", "exited"}
        /\ physicalGPU = NullPhysicalDevice
        /\ GPU = NullDevice
        /\ graphicsQueue = NullQueue
        /\ created \cap {"device", "queue"} = {}
        /\ pc = "catch" => exception = NoDeviceMessage
        /\ pc = "exited" =>
              /\ raised = NoDeviceMessage
              /\ cerr = <<NoDeviceMessage>>
              /\ exitStatus = "EXIT_FAILURE"

\* no device at all was enumerated and the run ended in failure
C15_Witness ==
    /\ pc = "exited"
    /\ enumerated = Some(<< >>)
    /\ exitStatus = "EXIT_FAILURE"

\* C16: AcceleRender starts in a fixed order: the instance exists before
\* the validation setup, a physical device is selected before
\* pickLogicalGPU() runs, and the main loop runs only with a logical
\* device, a queue and a swap chain created.
C16_StartupOrder ==
    program = "AcceleRender" =>
        /\ pc \in {"createInstance", "createInstance_extensions",
                   "createInstance_instance"} =>
              context = "loaded" /\ created = {}
        /\ pc = "setupDebugMessenger" => created = {"instance"}
        /\ pc \in {"pickPhysicalGPU", "pickPhysicalGPU_find"} =>
              /\ "instance" \in created
              /\ enableValidationLayers => "messenger" \in created
              /\ physicalGPU = NullPhysicalDevice
        /\ pc = "pickLogicalGPU" =>
              /\ physicalGPU # NullPhysicalDevice
              /\ GPU = NullDevice
        /\ pc \in {"mainLoop", "glfwPollEvents"} =>
              /\ GPU # NullDevice
              /\ graphicsQueue # NullQueue
              /\ swapChain # NullHandle

\* C17: a resize/invalidation signal received while the events are polled
\* has been answered by recreate() when the main loop comes back to its
\* test, before anything else is issued.
C17_SignalAnsweredByRecreate ==
    pc = "mainLoop" => ~signalPending

\* C18: no error escapes the entry point uncaught, and a run in which an
\* error was raised ends with the error caught once, its message printed
\* and a failure status.
C18_ErrorsCaughtOnceAtEntry ==
    /\ pc # "terminate"
    /\ catches <= 1
    /\ (pc = "exited" /\ raised # NoException) =>
          /\ catches = 1
          /\ cerr = <<raised>>
          /\ exitStatus = "EXIT_FAILURE"

\* a required layer or a required instance extension is not reported
LacksRequirement ==
    \/ /\ layerProperties # Nothing
       /\ \E layer \in Range(RequiredLayers) : layer \notin layerProperties[1]
    \/ /\ extensionProperties # Nothing
       /\ \E extension \in Range(getRequiredExtensions) :
             extension \notin extensionProperties[1]

\* C19: when a required layer or a required instance extension is not
\* reported, createInstance() throws before the instance is created: the
\* run creates no instance, no debug messenger, no logical device and no
\* queue, and selects no physical device.
C19_MissingRequirementBeforeInstance ==
    LacksRequirement =>
        /\ pc \in {"catch", "exited"}
        /\ raised # NoException
        /\ raised[1] \in {"Required layer not supported: ",
                          "Required extension not supported: ",
                          "Required GLFW extension not supported: "}
        /\ created = {}
        /\ instance = NullHandle
        /\ debugMessenger = NullHandle
        /\ enumerated = Nothing
        /\ physicalGPU = NullPhysicalDevice
        /\ GPU = NullDevice
        /\ graphicsQueue = NullQueue

\* a debug build on an installation without the debug-utils extension
C19_Witness ==
    /\ pc = "exited"
    /\ program = "AcceleRender"
    /\ enableValidationLayers
    /\ extensionProperties # Nothing
    /\ "VK_EXT_debug_utils" \notin extensionProperties[1]
    /\ raised = <<"Required extension not supported: ", "VK_EXT_debug_utils">>
    /\ exitStatus = "EXIT_FAILURE"

(***************************************************************************)
(* create() on a backend whose surface format query returns the empty      *)
(* sequence.  chooseSwapSurfaceFormat finds no preferred entry and returns  *)
(* availableFormats[0], an element the vector does not have: the read      *)
(* either kills the process or yields whatever the memory holds.           *)
(***************************************************************************)
GarbageFormats ==
    {SurfaceFormatKHR("UNDEFINED", "SRGB_NONLINEAR"),
     SurfaceFormatKHR("R8G8B8A8_UNORM", "HDR10_ST2084")}

\* the format query returning << >>, chooseSwapSurfaceFormat and chooseSwapExtent
CreateFormatEmpty ==
    /\ pc = "create_format"
    /\ \/ /\ \E chosenSurfaceFormat \in GarbageFormats :
                /\ swapChainImageFormat' = chosenSurfaceFormat.format
                /\ swapChainSurfaceFormat' = chosenSurfaceFormat
          /\ swapChainExtent' = chooseSwapExtent(surfaceCapabilities)
          /\ pc' = "create_count"
       \/ /\ pc' = "crashed"
          /\ UNCHANGED <<swapChainImageFormat, swapChainSurfaceFormat, swapChainExtent>>
    /\ UNCHANGED <<swapChain, swapChainImages, swapChainImageViews>>
    /\ UNCHANGED <<locals, op, backend, policy, history, application, profilerUI>>

NextEmptyFormats ==
    \/ CallCreate
    \/ CallCleanup
    \/ CallRecreate
    \/ CleanupViews
    \/ CleanupChain
    \/ CreateCaps
    \/ CreateFormatEmpty
    \/ CreateCount
    \/ CreateChainNew
    \/ CreateChainAssign
    \/ CreateImages
    \/ CreateViewsClear
    \/ CreateView
    \/ CreateReturn
    \/ CreateUnwind

SpecEmptyFormats == Init /\ [][NextEmptyFormats]_vars

\* C20: with an empty result of the surface format query, create() goes no
\* further than the query: it selects no format, builds no swap chain and
\* throws to its caller.
C20_EmptyFormatsFatal ==
    /\ pc \notin {"crashed", "create_count", "create_chain_new", "create_chain_assign",
                  "create_images", "create_views_clear", "create_views_loop"}
    /\ swapChainImageFormat = "UNDEFINED"
    /\ liveChains = {}
    /\ lifecycle # "Live"

(***************************************************************************)
(* ProfilerUI: two threads calling update() and render() on one object.    *)
(***************************************************************************)
MaxUpdates == 3

MaxHistory == 2

Threads == {1, 2}

Event(name, durationMs) == [name |-> name, durationMs |-> durationMs]

\* the frames ChronoProfiler::getEvents() may return
FrameSamples ==
    {<< >>,
     <<Event("updateScene", 2)>>,
     <<Event("updateScene", 1), Event("drawFrame", 3)>>,
     <<Event("drawFrame", 4), Event("drawFrame", 1)>>}

\* the statistics aggregatedStats[name] creates for a name not seen before
NoStats == [count |-> 0, totalMs |-> 0, maxMs |-> 0]

\* ZoneStats::add
add(stats, durationMs) ==
    [count |-> stats.count + 1,
     totalMs |-> stats.totalMs + durationMs,
     maxMs |-> Max(stats.maxMs, durationMs)]

\* the loop of update() over the events of the frame, from event k on
RECURSIVE Aggregate(_, _, _)
Aggregate(stats, frame, k) ==
    IF k > Len(frame)
    THEN stats
    ELSE LET e == frame[k]
             old == IF e.name \in DOMAIN stats THEN stats[e.name] ELSE NoStats
         IN  Aggregate([name \in DOMAIN stats \cup {e.name} |->
                           IF name = e.name THEN add(old, e.durationMs) ELSE stats[name]],
                       frame, k + 1)

\* ProfilerUI(historySize), and the threads before their first call
InitProfiler ==
    /\ Constructed
    /\ NotRun
    /\ program = None
    /\ enableValidationLayers = FALSE
    /\ policyArg = None
    /\ policyRet = None
    /\ pc = "threads"
    /\ uiMutex = NoThread
    /\ frameHistory = << >>
    /\ aggregatedStats = << >>
    /\ totalFrames = 0
    /\ maxHistory \in 0..MaxHistory
    /\ threadPc = [t \in Threads |-> "idle"]
    /\ events = [t \in Threads |-> << >>]
    /\ frameIndex = [t \in Threads |-> 0]
    /\ arrivals = << >>
    /\ updateCalls = 0

elsewhere == <<pc, swapChainManager, application>>

\* the lock of update() taken without waiting for its holder
UpdateLock_noWait(t) ==
    /\ threadPc[t] = "idle"
    /\ updateCalls < MaxUpdates
    /\ uiMutex' = t
    /\ updateCalls' = updateCalls + 1
    /\ threadPc' = [threadPc EXCEPT ![t] = "update_getEvents"]
    /\ UNCHANGED <<frameHistory, aggregatedStats, totalFrames, maxHistory, events,
                   frameIndex, arrivals, elsewhere>>

\* update(): std::lock_guard<std::mutex> lock(uiMutex)
UpdateLock(t) ==
    /\ threadPc[t] = "idle"
    /\ updateCalls < MaxUpdates
    /\ uiMutex = NoThread
    /\ uiMutex' = t
    /\ updateCalls' = updateCalls + 1
    /\ threadPc' = [threadPc EXCEPT ![t] = "update_getEvents"]
    /\ UNCHANGED <<frameHistory, aggregatedStats, totalFrames, maxHistory, events,
                   frameIndex, arrivals, elsewhere>>

\* update(): ChronoProfiler::getEvents()
UpdateGetEvents(t) ==
    /\ threadPc[t] = "update_getEvents"
    /\ \E frame \in FrameSamples : events' = [events EXCEPT ![t] = frame]
    /\ threadPc' = [threadPc EXCEPT ![t] = "update_push"]
    /\ UNCHANGED <<profilerMembers, frameIndex, arrivals, updateCalls, elsewhere>>

\* update(): frameHistory.push_back(events)
UpdatePush(t) ==
    /\ threadPc[t] = "update_push"
    /\ frameHistory' = Append(frameHistory, events[t])
    /\ arrivals' = Append(arrivals, events[t])
    /\ threadPc' = [threadPc EXCEPT ![t] = "update_evict"]
    /\ UNCHANGED <<uiMutex, aggregatedStats, totalFrames, maxHistory, events,
                   frameIndex, updateCalls, elsewhere>>

\* the oldest frame dropped as soon as the history is full
UpdateEvict_atCapacity(t) ==
    /\ threadPc[t] = "update_evict"
    /\ frameHistory' = IF Len(frameHistory) >= maxHistory
                       THEN Tail(frameHistory)
                       ELSE frameHistory
    /\ threadPc' = [threadPc EXCEPT ![t] = "update_aggregate"]
    /\ UNCHANGED <<uiMutex, aggregatedStats, totalFrames, maxHistory, events,
                   frameIndex, arrivals, updateCalls, elsewhere>>

\* update(): if (frameHistory.size() > maxHistory) erase(begin())
UpdateEvict(t) ==
    /\ threadPc[t] = "update_evict"
    /\ frameHistory' = IF Len(frameHistory) > maxHistory
                       THEN Tail(frameHistory)
                       ELSE frameHistory
    /\ threadPc' = [threadPc EXCEPT ![t] = "update_aggregate"]
    /\ UNCHANGED <<uiMutex, aggregatedStats, totalFrames, maxHistory, events,
                   frameIndex, arrivals, updateCalls, elsewhere>>

\* the statistics taken from the newest frame still in the history
UpdateAggregate_fromHistory(t) ==
    /\ threadPc[t] = "update_aggregate"
    /\ aggregatedStats' = IF frameHistory = << >>
                          THEN aggregatedStats
                          ELSE Aggregate(aggregatedStats,
                                         frameHistory[Len(frameHistory)], 1)
    /\ threadPc' = [threadPc EXCEPT ![t] = "update_count"]
    /\ UNCHANGED <<uiMutex, frameHistory, totalFrames, maxHistory, events,
                   frameIndex, arrivals, updateCalls, elsewhere>>

\* update(): for (const auto& e : events) aggregatedStats[e.name].add(...)
UpdateAggregate(t) ==
    /\ threadPc[t] = "update_aggregate"
    /\ aggregatedStats' = Aggregate(aggregatedStats, events[t], 1)
    /\ threadPc' = [threadPc EXCEPT ![t] = "update_count"]
    /\ UNCHANGED <<uiMutex, frameHistory, totalFrames, maxHistory, events,
                   frameIndex, arrivals, updateCalls, elsewhere>>

\* update(): totalFrames++
UpdateCount(t) ==
    /\ threadPc[t] = "update_count"
    /\ totalFrames' = totalFrames + 1
    /\ threadPc' = [threadPc EXCEPT ![t] = "update_return"]
    /\ UNCHANGED <<uiMutex, frameHistory, aggregatedStats, maxHistory, events,
                   frameIndex, arrivals, updateCalls, elsewhere>>

\* update() returns: the lock_guard releases the lock
UpdateReturn(t) ==
    /\ threadPc[t] = "update_return"
    /\ uiMutex' = NoThread
    /\ events' = [events EXCEPT ![t] = << >>]
    /\ threadPc' = [threadPc EXCEPT ![t] = "idle"]
    /\ UNCHANGED <<frameHistory, aggregatedStats, totalFrames, maxHistory,
                   frameIndex, arrivals, updateCalls, elsewhere>>

\* render(): std::lock_guard<std::mutex> lock(uiMutex)
RenderLock(t) ==
    /\ threadPc[t] = "idle"
    /\ uiMutex = NoThread
    /\ uiMutex' = t
    /\ threadPc' = [threadPc EXCEPT ![t] = "render_frameIndex"]
    /\ UNCHANGED <<frameHistory, aggregatedStats, totalFrames, maxHistory, events,
                   frameIndex, arrivals, updateCalls, elsewhere>>

\* render(): size_t frameIndex = totalFrames, and the header line
RenderFrameIndex(t) ==
    /\ threadPc[t] = "render_frameIndex"
    /\ frameIndex' = [frameIndex EXCEPT ![t] = totalFrames]
    /\ threadPc' = [threadPc EXCEPT ![t] = "render_frame"]
    /\ UNCHANGED <<profilerMembers, events, arrivals, updateCalls, elsewhere>>

\* render(): renderFrame(frameHistory.back(), frameIndex) when there is one
RenderFrame(t) ==
    /\ threadPc[t] = "render_frame"
    /\ threadPc' = [threadPc EXCEPT ![t] = "render_stats"]
    /\ UNCHANGED <<profilerMembers, events, frameIndex, arrivals, updateCalls,
                   elsewhere>>

\* render(): renderAggregatedStats(), then the lock_guard releases the lock
RenderStats(t) ==
    /\ threadPc[t] = "render_stats"
    /\ uiMutex' = NoThread
    /\ frameIndex' = [frameIndex EXCEPT ![t] = 0]
    /\ threadPc' = [threadPc EXCEPT ![t] = "idle"]
    /\ UNCHANGED <<frameHistory, aggregatedStats, totalFrames, maxHistory, events,
                   arrivals, updateCalls, elsewhere>>

NextProfiler ==
    \/ \E t \in Threads : UpdateLock(t)
    \/ \E t \in Threads : UpdateGetEvents(t)
    \/ \E t \in Threads : UpdatePush(t)
    \/ \E t \in Threads : UpdateEvict(t)
    \/ \E t \in Threads : UpdateAggregate(t)
    \/ \E t \in Threads : UpdateCount(t)
    \/ \E t \in Threads : UpdateReturn(t)
    \/ \E t \in Threads : RenderLock(t)
    \/ \E t \in Threads : RenderFrameIndex(t)
    \/ \E t \in Threads : RenderFrame(t)
    \/ \E t \in Threads : RenderStats(t)

SpecProfiler == InitProfiler /\ [][NextProfiler]_vars

(***************************************************************************)
(* Properties of ProfilerUI.                                               *)
(***************************************************************************)
UpdateBody ==
    {"update_getEvents", "update_push", "update_evict", "update_aggregate",
     "update_count", "update_return"}

RenderBody == {"render_frameIndex", "render_frame", "render_stats"}

\* the events named name in all the frames pushed so far
EventsNamed(name) ==
    {ij \in UNION {{<<i, j>> : j \in DOMAIN arrivals[i]} : i \in DOMAIN arrivals} :
        arrivals[ij[1]][ij[2]].name = name}

NamesSeen ==
    UNION {{arrivals[i][j].name : j \in DOMAIN arrivals[i]} : i \in DOMAIN arrivals}

\* the table has one row per name seen, counting every event of that name
StatsCountEveryEvent ==
    /\ DOMAIN aggregatedStats = NamesSeen
    /\ \A name \in NamesSeen :
          aggregatedStats[name].count = Cardinality(EventsNamed(name))

\* the history is the most recent frames pushed, in the order pushed, as
\* many as maxHistory allows
HistoryIsNewestFrames ==
    LET n == Len(arrivals)
        kept == Min(maxHistory, n)
    IN  frameHistory = SubSeq(arrivals, n - kept + 1, n)

\* C21: a thread inside update() or render() holds the lock and is alone
\* there, so two updates never interleave and a render never runs
\* during an update: what a render reads is the state left by complete
\* updates, every frame pushed being counted and aggregated.
C21_UpdateRenderExclusive ==
    \A t \in Threads :
        /\ threadPc[t] \in UpdateBody \cup RenderBody =>
              /\ uiMutex = t
              /\ \A u \in Threads \ {t} : threadPc[u] = "idle"
        /\ threadPc[t] \in RenderBody =>
              /\ totalFrames = Len(arrivals)
              /\ HistoryIsNewestFrames
              /\ StatsCountEveryEvent
        /\ threadPc[t] \in {"render_frame", "render_stats"} =>
              frameIndex[t] = totalFrames

\* a render in progress on one thread after two complete updates
C21_Witness ==
    /\ threadPc[1] = "render_stats"
    /\ threadPc[2] = "idle"
    /\ frameIndex[1] = 2
    /\ updateCalls = 2

\* C22: outside the steps of update() between the push of a frame and its
\* aggregation, every zone name seen in any frame pushed so far is in the
\* table with a count equal to the number of events of that name, whether
\* or not the frames are still in the history.
C22_StatsAppendOnly ==
    (\A t \in Threads : threadPc[t] \notin {"update_evict", "update_aggregate"}) =>
        StatsCountEveryEvent

\* every frame that named updateScene has been evicted, and its events
\* are still counted
C22_Witness ==
    /\ \A t \in Threads : threadPc[t] = "idle"
    /\ Len(arrivals) > Len(frameHistory)
    /\ "updateScene" \in DOMAIN aggregatedStats
    /\ aggregatedStats["updateScene"].count = 2
    /\ \A i \in DOMAIN frameHistory : \A j \in DOMAIN frameHistory[i] :
          frameHistory[i][j].name # "updateScene"

\* C23: once update() is past its eviction step the history holds at most
\* maxHistory frames, the most recent ones in arrival order, one frame at
\* most having been dropped per update; when no update() is running
\* totalFrames is the number of update() calls made.
C23_RollingHistory ==
    /\ (\A t \in Threads : threadPc[t] # "update_evict") =>
          /\ Len(frameHistory) <= maxHistory
          /\ HistoryIsNewestFrames
          /\ Len(arrivals) - Len(frameHistory) = Max(0, Len(arrivals) - maxHistory)
    /\ (\E t \in Threads : threadPc[t] = "update_evict") =>
          Len(frameHistory) <= maxHistory + 1
    /\ (\A t \in Threads : threadPc[t] \notin UpdateBody) =>
          totalFrames = updateCalls

\* a history of size 0 after two updates
C23_Witness ==
    /\ \A t \in Threads : threadPc[t] = "idle"
    /\ maxHistory = 0
    /\ totalFrames = 2
    /\ frameHistory = << >>

\* C24: when pickLogicalGPU() is reached the device selected has a queue
\* family with the graphics bit, so the assertion never fails, and the
\* device and the queue are created on the first such family.
C24_GraphicsFamilyAsserted ==
    program = "AcceleRender" =>
        /\ pc = "pickLogicalGPU" =>
              \E i \in DOMAIN physicalGPU.queueFamilies :
                  "GRAPHICS" \in physicalGPU.queueFamilies[i]
        /\ exitStatus # "SIGABRT"
        /\ graphicsQueue # NullQueue =>
              LET families == physicalGPU.queueFamilies
                  position == graphicsQueue.queueFamilyIndex + 1
              IN  /\ position \in DOMAIN families
                  /\ "GRAPHICS" \in families[position]
                  /\ \A j \in 1..(position - 1) : "GRAPHICS" \notin families[j]
                  /\ GPU.queueFamilyIndex = graphicsQueue.queueFamilyIndex
                  /\ graphicsQueue.queueIndex = 0

\* a device with two graphics families, the queue on the first of them
C24_Witness ==
    /\ program = "AcceleRender"
    /\ pc = "mainLoop"
    /\ Len(physicalGPU.queueFamilies) = 3
    /\ graphicsQueue.queueFamilyIndex = 1

\* C25: create() is not atomic on failure.  Up to the construction of the
\* chain its steps leave the chain handle and the views as they were before
\* the call; when the construction is rejected the format, the surface
\* format and the extent stored are already the ones selected in this call;
\* when a view is rejected the new chain is held with the views of its
\* first images only, fewer than its images.
C25_CreateNotAtomicOnFailure ==
    [][/\ pc \in CreatePcsBeforeChain =>
             /\ swapChain' = swapChain
             /\ swapChainImageViews' = swapChainImageViews
       /\ (pc = "create_chain_new" /\ pc' = "create_unwind") =>
             /\ failedAt' = "chain"
             /\ swapChainExtent' = chooseSwapExtent(surfaceCapabilities)
             /\ swapChainSurfaceFormat' \in
                    {chooseSwapSurfaceFormat(report) : report \in SurfaceFormatsReports}
             /\ swapChainImageFormat' = swapChainSurfaceFormat'.format
       /\ (pc = "create_views_loop" /\ pc' = "create_unwind") =>
             /\ failedAt' = "view"
             /\ swapChain' = chainCount
             /\ swapChain' \in liveChains
             /\ Len(swapChainImageViews') < Len(swapChainImages')
             /\ \A i \in DOMAIN swapChainImageViews' :
                    swapChainImageViews'[i] = ImageView(swapChainImages'[i])]_pc

\* the second view of a new chain was rejected: the chain is held with one
\* view and more than one image
C25_Witness ==
    /\ pc = "idle"
    /\ lifecycle = "Failed"
    /\ failedAt = "view"
    /\ swapChain # NullHandle
    /\ Len(swapChainImageViews) = 1
    /\ Len(swapChainImages) > 1

====
